---- MODULE Spec2Model ----
(***************************************************************************)
(* Port allocation and network reconciliation engine of the DB manager     *)
(* backend (app/backend/k8s_manager.py, models.py).                        *)
(*                                                                         *)
(* Strings are sequences of one-character strings, so that f-string        *)
(* formatting, str(), int() and str.endswith() are computed, not assumed.  *)
(***************************************************************************)
EXTENDS Integers, Sequences, FiniteSets, TLC

VARIABLES
    registry,   \* data of ConfigMap ingress-nginx/tcp-services: key string -> target string
    svcPorts,   \* spec.ports of Service ingress-nginx-controller
    releases,   \* Helm releases present, as <<namespace, release_name>>
    procs,      \* one record per request slot: the locals of deploy_class / destroy_class
    returned,   \* history: <<key, target, class size>> handed back by successful deploys
    started,    \* history: number of invocations begun
    faults      \* history: number of external calls that have failed

vars == <<registry, svcPorts, releases, procs, returned, started, faults>>

-----------------------------------------------------------------------------
(* Bounds of the exploration *)

MaxSeqOps == 3       \* invocations per behaviour when requests run one at a time
MaxRecOps == 2       \* consecutive reconciliations per behaviour
MaxSmall == 1        \* largest class size of overlapping requests
MaxSeqSmall == 2     \* largest of the small class sizes of requests run one at a time
MaxFaults == 1       \* failing external calls per behaviour
ProbeWidth == 2      \* occupied ports probed at each end of a range
MaxSvcLen == 2       \* length of the initial entrypoint port list
MaxBelowOne == 2     \* sizes below 1 given to generate_instance_names: 0, -1, ...

-----------------------------------------------------------------------------
(* Text *)

DigitChars == <<"0", "1", "2", "3", "4", "5", "6", "7", "8", "9">>

IsDigit(ch) == \E d \in 1..10 : DigitChars[d] = ch

DigitValue(ch) == (CHOOSE d \in 1..10 : DigitChars[d] = ch) - 1

\* str(n) for n >= 0
RECURSIVE IntToStr(_)
IntToStr(n) ==
    IF n < 10 THEN <<DigitChars[n + 1]>>
    ELSE IntToStr(n \div 10) \o <<DigitChars[(n % 10) + 1]>>

\* int(s) for a string of decimal digits
RECURSIVE StrToInt(_)
StrToInt(s) ==
    IF Len(s) = 0 THEN 0
    ELSE 10 * StrToInt(SubSeq(s, 1, Len(s) - 1)) + DigitValue(s[Len(s)])

\* s.endswith(suffix)
EndsWith(s, suffix) ==
    /\ Len(s) >= Len(suffix)
    /\ SubSeq(s, Len(s) - Len(suffix) + 1, Len(s)) = suffix

TcpSuffix == <<"-", "t", "c", "p">>
AlumnoInfix == <<"-", "a", "l", "u", "m", "n", "o">>

-----------------------------------------------------------------------------
(* models.py *)

MYSQL == "mysql"
MONGO == "mongo"
DBType == {MYSQL, MONGO}

MysqlInternalPort == 3306
MysqlPortRangeStart == 3306
MysqlPortRangeEnd == 3330
MongoInternalPort == 27017
MongoPortRangeStart == 27017
MongoPortRangeEnd == 27040

DB_CONFIG ==
    [t \in DBType |->
        IF t = MYSQL
        THEN [internal_port |-> MysqlInternalPort,
              port_range_start |-> MysqlPortRangeStart,
              port_range_end |-> MysqlPortRangeEnd]
        ELSE [internal_port |-> MongoInternalPort,
              port_range_start |-> MongoPortRangeStart,
              port_range_end |-> MongoPortRangeEnd]]

\* DeployRequest.num_students / DestroyRequest.num_students: gt=0, le=25
MaxStudents == 25

-----------------------------------------------------------------------------
(* k8s_manager.py, section 1: names *)

\* range(1, num_students + 1)
StudentRangeShort(num_students) == 1..(num_students - 1)
StudentRange(num_students) == 1..num_students

generate_instance_names(class_name, num_students) ==
    [i \in StudentRange(num_students) |-> class_name \o AlumnoInfix \o IntToStr(i)]

\* f"{namespace}/{name}:{internal_port}"
InternalService(namespace, name, internal_port) ==
    namespace \o <<"/">> \o name \o <<":">> \o IntToStr(internal_port)

-----------------------------------------------------------------------------
(* k8s_manager.py, section 3: port allocation *)

\* the RuntimeError of calculate_port_mappings, as a value no port takes
RangeError == -1

\* {int(p) for p in current_data.keys()}
OccupiedPortsNone(current_data) == {}
OccupiedPorts(current_data) == {StrToInt(k) : k \in DOMAIN current_data}

\* candidate += 1 after an assignment
NextCandidateStuck(candidate) == candidate
NextCandidateSkipping(candidate) == candidate + 2
NextCandidate(candidate) == candidate + 1

\* while candidate in occupied_ports: candidate += 1; if candidate > port_end: raise
RECURSIVE SkipOccupied(_, _, _)
SkipOccupied(candidate, occupied_ports, port_end) ==
    IF candidate \notin occupied_ports THEN candidate
    ELSE IF candidate + 1 > port_end THEN RangeError
    ELSE SkipOccupied(candidate + 1, occupied_ports, port_end)

\* for name in names: ... ; the external ports in student order, or the raise
RECURSIVE PortLoop(_, _, _, _, _)
PortLoop(remaining, candidate, occupied_ports, port_end, acc) ==
    IF remaining = 0 THEN [raised |-> FALSE, ports |-> acc]
    ELSE LET c == SkipOccupied(candidate, occupied_ports, port_end) IN
         IF c = RangeError THEN [raised |-> TRUE, ports |-> <<>>]
         ELSE PortLoop(remaining - 1, NextCandidate(c), occupied_ports, port_end,
                       Append(acc, c))

calculate_port_mappings(db_type, class_name, num_students, namespace, current_data) ==
    LET config == DB_CONFIG[db_type]
        names == generate_instance_names(class_name, num_students)
        loop == PortLoop(num_students, config.port_range_start,
                         OccupiedPorts(current_data), config.port_range_end, <<>>)
    IN  [raised |-> loop.raised,
         mappings |->
            [i \in 1..Len(loop.ports) |->
                [student_name |-> names[i],
                 external_port |-> loop.ports[i],
                 internal_service |->
                    InternalService(namespace, names[i], config.internal_port)]]]

-----------------------------------------------------------------------------
(* k8s_manager.py, section 3: the registry (ConfigMap tcp-services) *)

EmptyData == <<>>

\* how a subprocess ends: exit code 0, a non-zero exit code, or no answer within
\* the 120 s of subprocess.run
CallResults == {"ok", "exit", "timeout"}

\* _run(cmd, check=...): TimeoutExpired whatever check is, RuntimeError on a
\* non-zero exit code when check is set
run_raises(res, check) == res = "timeout" \/ (check /\ res = "exit")

\* _get_tcp_configmap: _run(cmd, check=False); the data of the ConfigMap, {} when
\* kubectl get exits non-zero, the exception of _run when it times out
get_tcp_configmap(res, data) ==
    [raised |-> run_raises(res, FALSE),
     data |-> IF res = "ok" THEN data ELSE EmptyData]

\* _apply_tcp_configmap: kubectl apply of a manifest whose data is `data`
apply_tcp_configmap_merge(data, live) ==
    [k \in DOMAIN live \cup DOMAIN data |-> IF k \in DOMAIN data THEN data[k] ELSE live[k]]
apply_tcp_configmap(data, live) == data

\* current_data[key] = value
SetItemKeep(data, key, value) ==
    [k \in DOMAIN data \cup {key} |-> IF k \in DOMAIN data THEN data[k] ELSE value]
SetItem(data, key, value) ==
    [k \in DOMAIN data \cup {key} |-> IF k = key THEN value ELSE data[k]]

\* for m in mappings: current_data[str(m["external_port"])] = m["internal_service"]
RECURSIVE UpdateLoop(_, _, _)
UpdateLoop(current_data, mappings, i) ==
    IF i > Len(mappings) THEN current_data
    ELSE UpdateLoop(SetItem(current_data, IntToStr(mappings[i].external_port),
                            mappings[i].internal_service),
                    mappings, i + 1)

update_data_unchanged(current_data, mappings) == current_data
update_data(current_data, mappings) == UpdateLoop(current_data, mappings, 1)

\* expected_values of clean_tcp_configmap
ExpectedValues(db_type, class_name, num_students, namespace) ==
    LET names == generate_instance_names(class_name, num_students)
    IN  {InternalService(namespace, names[i], DB_CONFIG[db_type].internal_port) :
            i \in 1..num_students}

\* cleaned_data of clean_tcp_configmap
CleanedData(current_data, expected_values) ==
    LET keep == {k \in DOMAIN current_data : current_data[k] \notin expected_values}
    IN  [k \in keep |-> current_data[k]]

\* removed = len(current_data) - len(cleaned_data)
RemovedAndOne(current_data, cleaned_data) ==
    Cardinality(DOMAIN current_data) - Cardinality(DOMAIN cleaned_data) + 1
Removed(current_data, cleaned_data) ==
    Cardinality(DOMAIN current_data) - Cardinality(DOMAIN cleaned_data)

-----------------------------------------------------------------------------
(* k8s_manager.py, section 4: the entrypoint Service *)

PortEntry(name, port, targetPort) ==
    [name |-> name, port |-> port, targetPort |-> targetPort, protocol |-> "TCP"]

\* not p.get("name", "").endswith("-tcp")
IsBasePortAll(p) == TRUE
IsBasePort(p) == ~EndsWith(p.name, TcpSuffix)

\* base_ports = [p for p in current_ports if ...]
BasePorts(current_ports) == SelectSeq(current_ports, IsBasePort)

\* sorted(tcp_data.keys(), key=int), as <<int(key), key>> pairs
RECURSIVE SortedPairs(_)
SortedPairs(pairs) ==
    IF pairs = {} THEN <<>>
    ELSE LET least == CHOOSE pr \in pairs : \A o \in pairs : pr[1] <= o[1]
         IN  <<least>> \o SortedPairs(pairs \ {least})

SortedKeysDescending(keys) ==
    LET up == SortedPairs({<<StrToInt(k), k>> : k \in keys})
    IN  [i \in 1..Len(up) |-> up[Len(up) + 1 - i]]
SortedKeys(keys) == SortedPairs({<<StrToInt(k), k>> : k \in keys})

\* tcp_ports: one entry per key of the ConfigMap; ext_port = int(ext_port_str)
TcpPorts(tcp_data) ==
    LET keys == SortedKeys(DOMAIN tcp_data)
    IN  [i \in 1..Len(keys) |->
            PortEntry(IntToStr(keys[i][1]) \o TcpSuffix, keys[i][1], keys[i][1])]

\* all_ports = base_ports + tcp_ports
AllPorts(tcp_data, current_ports) == BasePorts(current_ports) \o TcpPorts(tcp_data)

-----------------------------------------------------------------------------
(* Requests and their locals *)

\* two requests may be in flight together
Procs == {1, 2}

ClassNames == {<<"c", "1">>, <<"c", "2">>}
Namespaces == {<<"d", "e", "f", "a", "u", "l", "t">>}
SmallSizes == 1..MaxSmall
Sizes == (1..MaxSeqSmall) \cup {MaxStudents}

IdleProc ==
    [op |-> "none", pc |-> "idle", outcome |-> "none",
     db_type |-> MYSQL, class_name |-> <<>>, num_students |-> 0, namespace |-> <<>>,
     calc_data |-> EmptyData, mappings |-> <<>>,
     current_data |-> EmptyData, cleaned_data |-> EmptyData,
     tcp_data |-> EmptyData, current_ports |-> <<>>, all_ports |-> <<>>,
     patched |-> FALSE, names |-> <<>>, result |-> "none"]

NewProc(op, pc, db_type, class_name, num_students, namespace) ==
    [IdleProc EXCEPT !.op = op, !.pc = pc, !.db_type = db_type,
                     !.class_name = class_name, !.num_students = num_students,
                     !.namespace = namespace]

Active(p) == p.pc \notin {"idle", "done"}

Expected(p) == ExpectedValues(p.db_type, p.class_name, p.num_students, p.namespace)

\* <<key, target, class size>> of every assignment a deploy hands back
MappingPairs(p) ==
    {<<IntToStr(p.mappings[i].external_port), p.mappings[i].internal_service,
       p.num_students>> : i \in 1..Len(p.mappings)}

\* the pairs successful deploys have handed back and no finished destroy covers
ReturnedAfter(p, outcome) ==
    IF p.op = "deploy" /\ outcome = "ok" THEN returned \cup MappingPairs(p)
    ELSE IF p.op = "destroy" THEN {pr \in returned : pr[2] \notin Expected(p)}
    ELSE returned

\* an external call fails only while the fault budget lasts
CanFail(res) == res = "ok" \/ faults < MaxFaults
Count(res) == faults' = IF res = "ok" THEN faults ELSE faults + 1

Goto(i, p) == procs' = [procs EXCEPT ![i] = p] /\ UNCHANGED returned

\* the call returns or raises: its locals are gone, its result stays with the caller
FinishRaising(i, p, outcome) ==
    /\ procs' = [procs EXCEPT ![i] =
                    [NewProc(p.op, "done", p.db_type, p.class_name, p.num_students,
                             p.namespace)
                        EXCEPT !.outcome = "error", !.patched = p.patched,
                               !.result = p.result]]
    /\ returned' = ReturnedAfter(p, "error")
FinishReturning(i, p, outcome) ==
    /\ procs' = [procs EXCEPT ![i] =
                    [NewProc(p.op, "done", p.db_type, p.class_name, p.num_students,
                             p.namespace)
                        EXCEPT !.outcome = "ok", !.mappings = p.mappings,
                               !.patched = p.patched, !.result = p.result]]
    /\ returned' = ReturnedAfter(p, "ok")
Finish(i, p, outcome) ==
    /\ procs' = [procs EXCEPT ![i] =
                    [NewProc(p.op, "done", p.db_type, p.class_name, p.num_students,
                             p.namespace)
                        EXCEPT !.outcome = outcome,
                               !.mappings = IF outcome = "ok" THEN p.mappings ELSE <<>>,
                               !.patched = p.patched, !.result = p.result]]
    /\ returned' = ReturnedAfter(p, outcome)

\* the entrypoint as the ingress chart creates it
HttpPort == PortEntry(<<"h", "t", "t", "p">>, 80, 80)
HttpsPort == PortEntry(<<"h", "t", "t", "p", "s">>, 443, 443)
InitialPorts == <<HttpPort, HttpsPort>>

Init ==
    /\ registry = EmptyData
    /\ svcPorts = InitialPorts
    /\ releases = {}
    /\ procs = [i \in Procs |-> IdleProc]
    /\ returned = {}
    /\ started = 0
    /\ faults = 0

-----------------------------------------------------------------------------
(* main.py: a request arrives; requests are served by a thread pool *)

CanBegin(i, serial, limit) ==
    /\ started < limit
    /\ i = (started % Cardinality(Procs)) + 1
    /\ ~Active(procs[i])
    /\ serial => \A j \in Procs : ~Active(procs[j])

BeginDeploy(i, serial, limit, sizes) ==
    /\ CanBegin(i, serial, limit)
    /\ \E t \in DBType, c \in ClassNames, n \in sizes, ns \in Namespaces :
          procs' = [procs EXCEPT ![i] = NewProc("deploy", "helm_deploy", t, c, n, ns)]
    /\ started' = started + 1
    /\ UNCHANGED <<registry, svcPorts, releases, returned, faults>>

BeginDestroy(i, serial, limit, sizes) ==
    /\ CanBegin(i, serial, limit)
    /\ \E t \in DBType, c \in ClassNames, n \in sizes, ns \in Namespaces :
          procs' = [procs EXCEPT ![i] = NewProc("destroy", "helm_uninstall", t, c, n, ns)]
    /\ started' = started + 1
    /\ UNCHANGED <<registry, svcPorts, releases, returned, faults>>

-----------------------------------------------------------------------------
(* deploy_class *)

\* whether `helm upgrade --install ... --wait --timeout 5m` has installed the
\* release when the call ends as res: it has on exit code 0 and has not on a
\* non-zero exit code; with --wait helm installs and then waits up to 5 min for
\* readiness, so the 120 s of _run may end it before or after the install
helm_installs(res) ==
    IF res = "ok" THEN {TRUE}
    ELSE IF res = "exit" THEN {FALSE}
    ELSE BOOLEAN

\* helm_deploy(release_name, chart_path, values_file, namespace)
HelmDeploy(i) ==
    \E res \in CallResults :
    \E installed \in helm_installs(res) :
    LET p == [procs[i] EXCEPT !.result = res] IN
    /\ procs[i].pc = "helm_deploy"
    /\ CanFail(res) /\ Count(res)
    /\ releases' = IF installed THEN releases \cup {<<p.namespace, p.class_name>>}
                   ELSE releases
    /\ IF ~run_raises(res, TRUE)
       THEN Goto(i, [p EXCEPT !.pc = "calculate"])
       ELSE Finish(i, p, "error")
    /\ UNCHANGED <<registry, svcPorts, started>>

\* mappings = calculate_port_mappings(db_type, class_name, num_students, namespace)
Calculate(i) ==
    \E res \in CallResults :
    LET p == [procs[i] EXCEPT !.result = res] IN
    /\ procs[i].pc = "calculate"
    /\ CanFail(res) /\ Count(res)
    /\ LET got == get_tcp_configmap(res, registry)
           calc == calculate_port_mappings(p.db_type, p.class_name,
                                           p.num_students, p.namespace, got.data)
       IN  IF got.raised \/ calc.raised
           THEN Finish(i, [p EXCEPT !.calc_data = got.data], "error")
           ELSE Goto(i, [p EXCEPT !.calc_data = got.data,
                                  !.mappings = calc.mappings,
                                  !.pc = "update_get"])
    /\ UNCHANGED <<registry, svcPorts, releases, started>>

\* update_tcp_configmap, lines 239-242: read the ConfigMap and add the mappings
UpdateGet(i) ==
    \E res \in CallResults :
    LET p == [procs[i] EXCEPT !.result = res] IN
    /\ procs[i].pc = "update_get"
    /\ CanFail(res) /\ Count(res)
    /\ LET got == get_tcp_configmap(res, registry)
       IN  IF got.raised
           THEN Finish(i, p, "error")
           ELSE Goto(i, [p EXCEPT !.current_data = update_data(got.data, p.mappings),
                                  !.pc = "update_apply"])
    /\ UNCHANGED <<registry, svcPorts, releases, started>>

\* update_tcp_configmap, line 244: _apply_tcp_configmap(current_data)
UpdateApply(i) ==
    \E res \in CallResults :
    LET p == [procs[i] EXCEPT !.result = res] IN
    /\ procs[i].pc = "update_apply"
    /\ CanFail(res) /\ Count(res)
    /\ IF ~run_raises(res, TRUE)
       THEN /\ registry' = apply_tcp_configmap(p.current_data, registry)
            /\ Goto(i, [p EXCEPT !.pc = "sync_get_cm"])
       ELSE /\ UNCHANGED registry
            /\ Finish(i, p, "error")
    /\ UNCHANGED <<svcPorts, releases, started>>

-----------------------------------------------------------------------------
(* destroy_class *)

\* helm_uninstall(release_name, namespace)
HelmUninstall(i) ==
    \E res \in CallResults :
    LET p == [procs[i] EXCEPT !.result = res] IN
    /\ procs[i].pc = "helm_uninstall"
    /\ CanFail(res) /\ Count(res)
    /\ IF ~run_raises(res, TRUE)
       THEN /\ releases' = releases \ {<<p.namespace, p.class_name>>}
            /\ Goto(i, [p EXCEPT !.pc = "clean_get"])
       ELSE /\ UNCHANGED releases
            /\ Finish(i, p, "error")
    /\ UNCHANGED <<registry, svcPorts, started>>

\* clean_tcp_configmap, lines 263-279: read, filter, decide whether to write
CleanGet(i) ==
    \E res \in CallResults :
    LET p == [procs[i] EXCEPT !.result = res] IN
    /\ procs[i].pc = "clean_get"
    /\ CanFail(res) /\ Count(res)
    /\ LET got == get_tcp_configmap(res, registry)
           data == got.data
           cleaned == CleanedData(data, Expected(p))
       IN  IF got.raised
           THEN Finish(i, p, "error")
           ELSE IF data = EmptyData
           THEN Goto(i, [p EXCEPT !.current_data = data, !.pc = "sync_get_cm"])
           ELSE IF Removed(data, cleaned) > 0
           THEN Goto(i, [p EXCEPT !.current_data = data, !.cleaned_data = cleaned,
                                  !.pc = "clean_apply"])
           ELSE Goto(i, [p EXCEPT !.current_data = data, !.cleaned_data = cleaned,
                                  !.pc = "sync_get_cm"])
    /\ UNCHANGED <<registry, svcPorts, releases, started>>

\* clean_tcp_configmap, line 280: _apply_tcp_configmap(cleaned_data)
CleanApply(i) ==
    \E res \in CallResults :
    LET p == [procs[i] EXCEPT !.result = res] IN
    /\ procs[i].pc = "clean_apply"
    /\ CanFail(res) /\ Count(res)
    /\ IF ~run_raises(res, TRUE)
       THEN /\ registry' = apply_tcp_configmap(p.cleaned_data, registry)
            /\ Goto(i, [p EXCEPT !.pc = "sync_get_cm"])
       ELSE /\ UNCHANGED registry
            /\ Finish(i, p, "error")
    /\ UNCHANGED <<svcPorts, releases, started>>

-----------------------------------------------------------------------------
(* _sync_ingress_service_ports *)

\* line 304: tcp_data = _get_tcp_configmap()
SyncGetConfigMap(i) ==
    \E res \in CallResults :
    LET p == [procs[i] EXCEPT !.result = res] IN
    /\ procs[i].pc = "sync_get_cm"
    /\ CanFail(res) /\ Count(res)
    /\ LET got == get_tcp_configmap(res, registry)
       IN  IF got.raised
           THEN Finish(i, p, "error")
           ELSE Goto(i, [p EXCEPT !.tcp_data = got.data, !.pc = "sync_get_svc"])
    /\ UNCHANGED <<registry, svcPorts, releases, started>>

\* lines 307-338: kubectl get svc with check=False; on a non-zero exit log and
\* return, on a timeout the exception of _run; else build all_ports
SyncGetService(i) ==
    \E res \in CallResults :
    LET p == [procs[i] EXCEPT !.result = res] IN
    /\ procs[i].pc = "sync_get_svc"
    /\ CanFail(res) /\ Count(res)
    /\ IF run_raises(res, FALSE) THEN Finish(i, p, "error")
       ELSE IF res = "ok"
       THEN Goto(i, [p EXCEPT !.current_ports = svcPorts,
                              !.all_ports = AllPorts(p.tcp_data, svcPorts),
                              !.pc = "sync_patch"])
       ELSE Finish(i, p, "ok")
    /\ UNCHANGED <<registry, svcPorts, releases, started>>

\* lines 341-348: kubectl patch svc --type=merge with spec.ports = all_ports
SyncPatch(i) ==
    \E res \in CallResults :
    LET p == [procs[i] EXCEPT !.result = res] IN
    /\ procs[i].pc = "sync_patch"
    /\ CanFail(res) /\ Count(res)
    /\ IF ~run_raises(res, TRUE)
       THEN /\ svcPorts' = p.all_ports
            /\ Finish(i, [p EXCEPT !.patched = TRUE], "ok")
       ELSE /\ UNCHANGED svcPorts
            /\ Finish(i, p, "error")
    /\ UNCHANGED <<registry, releases, started>>

Step(i) ==
    \/ HelmDeploy(i) \/ Calculate(i) \/ UpdateGet(i) \/ UpdateApply(i)
    \/ HelmUninstall(i) \/ CleanGet(i) \/ CleanApply(i)
    \/ SyncGetConfigMap(i) \/ SyncGetService(i) \/ SyncPatch(i)

-----------------------------------------------------------------------------
(* Requests served concurrently: one request per slot *)

Next ==
    \E i \in Procs :
        \/ BeginDeploy(i, FALSE, Cardinality(Procs), SmallSizes)
        \/ BeginDestroy(i, FALSE, Cardinality(Procs), SmallSizes)
        \/ Step(i)

\* the cluster after deploy_class(t, c, n, ns) ran alone on a fresh cluster
AfterDeploy(t, c, n, ns) ==
    LET p == [NewProc("deploy", "done", t, c, n, ns) EXCEPT
                 !.mappings = calculate_port_mappings(t, c, n, ns, EmptyData).mappings]
        data == update_data(EmptyData, p.mappings)
    IN  /\ registry = data
        /\ svcPorts = AllPorts(data, InitialPorts)
        /\ releases = {<<ns, c>>}
        /\ returned = MappingPairs(p)

\* overlapping requests meet a fresh cluster or one that holds an earlier class
\* (the class names are interchangeable: the earlier class is the first of them)
FirstClass == <<"c", "1">>

ConcInit ==
    /\ \/ registry = EmptyData /\ svcPorts = InitialPorts /\ releases = {} /\ returned = {}
       \/ \E t \in DBType, n \in SmallSizes, ns \in Namespaces :
             AfterDeploy(t, FirstClass, n, ns)
    /\ procs = [i \in Procs |-> IdleProc]
    /\ started = 0
    /\ faults = 0

Spec == ConcInit /\ [][Next]_vars

-----------------------------------------------------------------------------
(* Requests served one at a time *)

SeqNext ==
    \E i \in Procs :
        \/ BeginDeploy(i, TRUE, MaxSeqOps, Sizes)
        \/ BeginDestroy(i, TRUE, MaxSeqOps, Sizes)
        \/ Step(i)

SeqSpec == Init /\ [][SeqNext]_vars

-----------------------------------------------------------------------------
(* calculate_port_mappings on its own: every size, occupancy around both ends *)
(* of the range                                                              *)

Probes(t) ==
    LET lo == DB_CONFIG[t].port_range_start
        hi == DB_CONFIG[t].port_range_end
    IN  (lo..(lo + ProbeWidth - 1)) \cup ((hi - ProbeWidth + 1)..(hi + ProbeWidth - 1))

\* a target of some class that is none of ClassNames
ForeignTarget(t, ns) ==
    InternalService(ns, generate_instance_names(<<"c", "0">>, 1)[1],
                    DB_CONFIG[t].internal_port)

RegistryOver(ports, t, ns) ==
    [k \in {IntToStr(q) : q \in ports} |-> ForeignTarget(t, ns)]

AllocInit ==
    /\ \E t \in DBType, c \in ClassNames, n \in 1..MaxStudents, ns \in Namespaces :
          /\ \E occ \in SUBSET Probes(t) : registry = RegistryOver(occ, t, ns)
          /\ procs = [i \in Procs |->
                        IF i = 1 THEN NewProc("deploy", "calculate", t, c, n, ns)
                        ELSE IdleProc]
          /\ releases = {<<ns, c>>}
    /\ svcPorts = InitialPorts
    /\ returned = {}
    /\ started = 1
    /\ faults = 0

AllocNext == \E i \in Procs : Calculate(i)

AllocSpec == AllocInit /\ [][AllocNext]_vars

-----------------------------------------------------------------------------
(* deploy_class on its own: every size, on a cluster whose registry holds      *)
(* another class around both ends of the range                                 *)

DeployInit ==
    /\ \E t \in DBType, n \in 1..MaxStudents, ns \in Namespaces :
          /\ \E occ \in SUBSET Probes(t) : registry = RegistryOver(occ, t, ns)
          /\ procs = [i \in Procs |->
                        IF i = 1 THEN NewProc("deploy", "helm_deploy", t, FirstClass, n, ns)
                        ELSE IdleProc]
    /\ svcPorts = AllPorts(registry, InitialPorts)
    /\ releases = {}
    /\ returned = {}
    /\ started = 1
    /\ faults = 0

DeployNext ==
    \E i \in Procs :
        \/ HelmDeploy(i) \/ Calculate(i) \/ UpdateGet(i) \/ UpdateApply(i)
        \/ SyncGetConfigMap(i) \/ SyncGetService(i) \/ SyncPatch(i)

DeploySpec == DeployInit /\ [][DeployNext]_vars

-----------------------------------------------------------------------------
(* destroy_class on its own, on a cluster that holds one class *)

DestroyInit ==
    /\ \E t \in DBType, n \in Sizes, ns \in Namespaces : AfterDeploy(t, FirstClass, n, ns)
    /\ \E t \in DBType, c \in ClassNames, n \in Sizes, ns \in Namespaces :
          procs = [i \in Procs |->
                     IF i = 1 THEN NewProc("destroy", "helm_uninstall", t, c, n, ns)
                     ELSE IdleProc]
    /\ started = 1
    /\ faults = 0

DestroyNext ==
    \E i \in Procs :
        \/ HelmUninstall(i) \/ CleanGet(i) \/ CleanApply(i)
        \/ SyncGetConfigMap(i) \/ SyncGetService(i) \/ SyncPatch(i)

DestroySpec == DestroyInit /\ [][DestroyNext]_vars

-----------------------------------------------------------------------------
(* generate_instance_names on its own: every size from below 1 to the largest *)
(* class, class names that are empty or end in a digit or in the infix        *)

NameInputs == ClassNames \cup {<<>>, <<"b", "d", "-", "1", "0">>, <<"x">> \o AlumnoInfix}

NameSizes == (1 - MaxBelowOne)..MaxStudents

NamesInit ==
    /\ \E c \in [Procs -> NameInputs], n \in [Procs -> NameSizes] :
          procs = [i \in Procs |-> NewProc("names", "generate", MYSQL, c[i], n[i], <<>>)]
    /\ registry = EmptyData
    /\ svcPorts = InitialPorts
    /\ releases = {}
    /\ returned = {}
    /\ started = 0
    /\ faults = 0

\* names = generate_instance_names(class_name, num_students)
GenerateNames(i) ==
    LET p == procs[i] IN
    /\ p.pc = "generate"
    /\ procs' = [procs EXCEPT ![i] =
                    [p EXCEPT !.names = generate_instance_names(p.class_name, p.num_students),
                              !.pc = "done", !.outcome = "ok"]]
    /\ UNCHANGED <<registry, svcPorts, releases, returned, started, faults>>

NamesNext == \E i \in Procs : GenerateNames(i)

NamesSpec == NamesInit /\ [][NamesNext]_vars

-----------------------------------------------------------------------------
(* _sync_ingress_service_ports on its own: consecutive calls over a registry *)
(* that does not change, from any entrypoint port list                       *)

\* a port an operator exposes under a name that ends in -tcp
SshPort == PortEntry(<<"s", "s", "h">> \o TcpSuffix, 22, 22)
\* entries an earlier reconciliation left behind
StaleMysqlPort == PortEntry(IntToStr(MysqlPortRangeStart) \o TcpSuffix,
                            MysqlPortRangeStart, MysqlPortRangeStart)
StaleMongoPort == PortEntry(IntToStr(MongoPortRangeStart + 1) \o TcpSuffix,
                            MongoPortRangeStart + 1, MongoPortRangeStart + 1)

PortCandidates == {HttpPort, HttpsPort, SshPort, StaleMysqlPort, StaleMongoPort}

PortLists ==
    {l \in UNION {[1..n -> PortCandidates] : n \in 0..MaxSvcLen} :
        \A a, b \in DOMAIN l : a # b => l[a] # l[b]}

RecPorts == {MysqlPortRangeStart, MysqlPortRangeStart + 1, MongoPortRangeStart}

RecInit ==
    /\ \E occ \in SUBSET RecPorts, ns \in Namespaces :
          registry = RegistryOver(occ, MYSQL, ns)
    /\ svcPorts \in PortLists
    /\ releases = {}
    /\ procs = [i \in Procs |-> IdleProc]
    /\ returned = {}
    /\ started = 0
    /\ faults = 0

BeginSync(i, limit) ==
    /\ CanBegin(i, TRUE, limit)
    /\ procs' = [procs EXCEPT ![i] = NewProc("sync", "sync_get_cm", MYSQL, <<>>, 0, <<>>)]
    /\ started' = started + 1
    /\ UNCHANGED <<registry, svcPorts, releases, returned, faults>>

RecNext ==
    \E i \in Procs :
        \/ BeginSync(i, MaxRecOps)
        \/ SyncGetConfigMap(i)
        \/ SyncGetService(i)
        \/ SyncPatch(i)

RecSpec == RecInit /\ [][RecNext]_vars

-----------------------------------------------------------------------------
(* Properties of calculate_port_mappings, checked under AllocSpec *)

\* calculate_port_mappings has returned its list to deploy_class
Allocated(p) == p.op = "deploy" /\ p.pc = "update_get"

RangeOf(t) == DB_CONFIG[t].port_range_start..DB_CONFIG[t].port_range_end

ExternalPorts(p) == {p.mappings[k].external_port : k \in 1..Len(p.mappings)}

\* ports of the range of p's db kind that the snapshot p read leaves free
FreeInRange(p) == RangeOf(p.db_type) \ OccupiedPorts(p.calc_data)

\* C1: every external port that calculate_port_mappings returns lies within
\* [port_range_start, port_range_end] of the db kind (here: with no external
\* call failing).
C1_PortsWithinRange ==
    \A i \in Procs :
        (Allocated(procs[i]) /\ faults = 0) =>
            ExternalPorts(procs[i]) \subseteq RangeOf(procs[i].db_type)

\* C2: calculate_port_mappings returns no assignment when fewer than n ports of
\* the range are unoccupied: whenever it returns one, at least n were free
\* (here: with no external call failing).
C2_FailsWhenTooFewFree ==
    \A i \in Procs :
        (Allocated(procs[i]) /\ faults = 0) =>
            Cardinality(FreeInRange(procs[i])) >= procs[i].num_students

\* C3: whenever calculate_port_mappings returns, the external ports are strictly
\* increasing in student order and none of them is a key of the registry
\* snapshot the call read.
C3_IncreasingAndUnoccupied ==
    \A i \in Procs :
        Allocated(procs[i]) =>
            LET m == procs[i].mappings IN
            /\ Len(m) = procs[i].num_students
            /\ \A k \in 1..(Len(m) - 1) : m[k].external_port < m[k + 1].external_port
            /\ \A k \in 1..Len(m) :
                  /\ IntToStr(m[k].external_port) \notin DOMAIN procs[i].calc_data
                  /\ m[k].external_port \notin OccupiedPorts(procs[i].calc_data)

\* a call that returned several ports after stepping over occupied ones, at the
\* start of the range and between two students
C3_Witness ==
    \E i \in Procs :
        /\ Allocated(procs[i])
        /\ Len(procs[i].mappings) >= 3
        /\ procs[i].mappings[1].external_port > DB_CONFIG[procs[i].db_type].port_range_start
        /\ \E k \in 1..(Len(procs[i].mappings) - 1) :
              procs[i].mappings[k + 1].external_port > procs[i].mappings[k].external_port + 1

-----------------------------------------------------------------------------
(* Properties of the registry under requests served one at a time (SeqSpec) *)

Binds(data, key, target) == key \in DOMAIN data /\ data[key] = target

\* a destroy whose expected targets include `target` is under way
BeingDestroyed(target) ==
    \E j \in Procs :
        procs[j].op = "destroy" /\ Active(procs[j]) /\ target \in Expected(procs[j])

\* C4: with invocations run one at a time, every assignment port -> target that a
\* successful deploy returned stays in the registry as exactly port -> target
\* after every later operation, until a destroy whose expected targets include
\* the target runs; no later deploy removes the key or rebinds it.
C4_ReturnedAssignmentsStay ==
    \A pr \in returned : BeingDestroyed(pr[2]) \/ Binds(registry, pr[1], pr[2])

\* destroy_class(t, c, n, ns) returns normally in this step
DestroyReturns(i) ==
    /\ procs[i].op = "destroy" /\ Active(procs[i])
    /\ procs'[i].pc = "done" /\ procs'[i].outcome = "ok"

\* what a deploy with the same four arguments handed back before this destroy
DeployedBy(p) ==
    {pr \in returned : pr[2] \in Expected(p) /\ pr[3] = p.num_students}

\* C5: a destroy_class run after a deploy_class with the same four arguments
\* removes the entries that deploy added, and no step of it removes or changes
\* an entry of any other class.
C5_DestroyRemovesItsClassOnly ==
    [][\A i \in Procs :
          /\ DestroyReturns(i) =>
                \A pr \in DeployedBy(procs[i]) : ~Binds(registry', pr[1], pr[2])
          /\ (procs[i].op = "destroy" /\ Active(procs[i])) =>
                \A k \in DOMAIN registry :
                    registry[k] \notin Expected(procs[i]) => Binds(registry', k, registry[k])
      ]_vars

-----------------------------------------------------------------------------
(* Properties of overlapping requests (Spec) *)

\* the registry write of update_tcp_configmap / clean_tcp_configmap succeeds in this step
Commits(i) ==
    /\ procs[i].pc \in {"update_apply", "clean_apply"}
    /\ procs'[i].pc = "sync_get_cm"

\* the manifest the writer built from the registry it read earlier
Manifest(p) == IF p.pc = "update_apply" THEN p.current_data ELSE p.cleaned_data

FinishedOk(p, op) == p.op = op /\ p.pc = "done" /\ p.outcome = "ok"

\* C6: overlapping deploys of different classes of one db kind can be given the
\* same external port; the later registry commit binds every port of its own
\* assignment to its own target, whatever target an earlier commit wrote there,
\* and goes on without an error.
C6_LaterCommitOverwrites ==
    [][\A i \in Procs :
          (Commits(i) /\ procs[i].op = "deploy") =>
              \A k \in 1..Len(procs[i].mappings) :
                  Binds(registry', IntToStr(procs[i].mappings[k].external_port),
                        procs[i].mappings[k].internal_service)
      ]_vars

\* both deploys reported success, were given the same port for different
\* students, and the registry holds only one of the two targets for it
C6_Witness ==
    \E i, j \in Procs :
        /\ i # j
        /\ FinishedOk(procs[i], "deploy") /\ FinishedOk(procs[j], "deploy")
        /\ procs[i].db_type = procs[j].db_type
        /\ procs[i].class_name # procs[j].class_name
        /\ \E a \in 1..Len(procs[i].mappings), b \in 1..Len(procs[j].mappings) :
              /\ procs[i].mappings[a].external_port = procs[j].mappings[b].external_port
              /\ procs[i].mappings[a].internal_service # procs[j].mappings[b].internal_service
              /\ Binds(registry, IntToStr(procs[j].mappings[b].external_port),
                       procs[j].mappings[b].internal_service)

\* C7: a registry write is a full replace by what the writer read and edited,
\* with no version check: every entry another request committed since the
\* writer's read, and that the writer's manifest lacks, is gone after the write.
C7_LastWriterWins ==
    [][\A i \in Procs :
          Commits(i) =>
              \A k \in DOMAIN registry :
                  k \notin DOMAIN Manifest(procs[i]) => k \notin DOMAIN registry'
      ]_vars

\* destroy of one class and deploy of another both succeeded, and no entry the
\* deploy returned is in the registry
C7_Witness ==
    \E i, j \in Procs :
        /\ FinishedOk(procs[i], "destroy") /\ FinishedOk(procs[j], "deploy")
        /\ procs[i].class_name # procs[j].class_name
        /\ faults = 0
        /\ Len(procs[j].mappings) > 0
        /\ \A k \in 1..Len(procs[j].mappings) :
              IntToStr(procs[j].mappings[k].external_port) \notin DOMAIN registry

-----------------------------------------------------------------------------
(* Properties of _sync_ingress_service_ports (RecSpec) *)

\* a name of the port-derived form "<port>-tcp"
IsPortDerived(name) ==
    /\ Len(name) > Len(TcpSuffix)
    /\ EndsWith(name, TcpSuffix)
    /\ \A k \in 1..(Len(name) - Len(TcpSuffix)) : IsDigit(name[k])

IsUnmanagedEntry(e) == ~IsPortDerived(e.name)

ManagedEntry(port) == PortEntry(IntToStr(port) \o TcpSuffix, port, port)

\* the patch of reconcile i is applied in this step
Patches(i) == procs[i].pc = "sync_patch" /\ procs'[i].patched

\* C8: reconcile is idempotent: of two consecutive calls over an unchanged
\* registry, in which no external call failed, the second leaves the
\* entrypoint's port list as the first left it.
C8_ReconcileIdempotent ==
    [][\A i \in Procs :
          (/\ Patches(i)
           /\ faults' = 0
           /\ registry' = registry
           /\ \E j \in Procs \ {i} : procs[j].op = "sync" /\ procs[j].patched)
          => svcPorts' = svcPorts
      ]_vars

\* two calls have patched a list that holds base and managed entries
C8_Witness ==
    /\ \A i \in Procs : procs[i].op = "sync" /\ procs[i].pc = "done" /\ procs[i].patched
    /\ faults = 0
    /\ Cardinality(DOMAIN registry) >= 2
    /\ Len(svcPorts) > Cardinality(DOMAIN registry)

\* C9: every entry of the current port list whose name is not of the form
\* "<port>-tcp" is, unchanged and in the same order, at the front of the list
\* reconcile applies; only entries with a port-derived name are discarded
\* (here: with no external call failing).
C9_BaseEntriesKept ==
    \A i \in Procs :
        (procs[i].pc = "sync_patch" /\ faults = 0) =>
            LET keep == SelectSeq(procs[i].current_ports, IsUnmanagedEntry)
            IN  /\ Len(procs[i].all_ports) >= Len(keep)
                /\ SubSeq(procs[i].all_ports, 1, Len(keep)) = keep

\* C10: after a reconcile that read the registry as it is, the applied list ends
\* with exactly one entry {"<port>-tcp", port, targetPort = port, TCP} per
\* registry key, ascending by numeric port, after all other entries, none of
\* which is managed; with an empty registry no managed entry is applied.
C10_ManagedMirrorsRegistry ==
    [][\A i \in Procs :
          (Patches(i) /\ procs[i].tcp_data = registry) =>
              LET m == Cardinality(DOMAIN registry)
                  b == Len(svcPorts') - m
              IN  /\ b >= 0
                  /\ SubSeq(svcPorts', 1, b) = BasePorts(procs[i].current_ports)
                  /\ \A k \in 1..b : IsUnmanagedEntry(svcPorts'[k])
                  /\ \A k \in 1..m :
                        /\ svcPorts'[b + k] = ManagedEntry(svcPorts'[b + k].port)
                        /\ IntToStr(svcPorts'[b + k].port) \in DOMAIN registry
                  /\ \A k \in 1..(m - 1) : svcPorts'[b + k].port < svcPorts'[b + k + 1].port
      ]_vars

\* a reconcile has applied base entries followed by several managed entries
C10_Witness ==
    \E i \in Procs :
        /\ procs[i].op = "sync" /\ procs[i].patched /\ faults = 0
        /\ Cardinality(DOMAIN registry) = Cardinality(RecPorts)
        /\ Len(svcPorts) = Cardinality(RecPorts) + MaxSvcLen
        /\ IsPortDerived(svcPorts[Len(svcPorts)].name)

-----------------------------------------------------------------------------
(* Error handling of deploy_class / destroy_class *)

\* request i takes a step in which its external call fails
FailsAt(i, pcs) ==
    /\ procs[i].pc \in pcs
    /\ procs'[i] # procs[i]
    /\ faults' = faults + 1

\* the steps whose external call is a read of the registry
RegistryReads == {"calculate", "update_get", "clean_get", "sync_get_cm"}

\* every step that makes an external call, but the fetch of the entrypoint Service
RaisingCalls ==
    {"helm_deploy", "helm_uninstall", "update_apply", "clean_apply", "sync_patch"}
        \cup RegistryReads

EndsAs(i, outcome) == procs'[i].pc = "done" /\ procs'[i].outcome = outcome

\* C11: every failure of a registry read or write or of an external runtime call
\* made during deploy_class or destroy_class, other than the fetch of the
\* entrypoint Service, ends the operation as a failure; a failed registry read
\* is never carried on with as an empty registry.
C11_FailuresPropagate ==
    [][\A i \in Procs : FailsAt(i, RaisingCalls) => EndsAs(i, "error")]_vars

\* the fetch of the entrypoint Service by request i fails in this step
FetchFails(i) == FailsAt(i, {"sync_get_svc"})

\* what C12 promises of a step in which the fetch of the Service fails
SoftFails(i) ==
    /\ EndsAs(i, "ok")
    /\ ~procs'[i].patched
    /\ svcPorts' = svcPorts
    /\ procs[i].op = "deploy" =>
          /\ procs'[i].mappings = procs[i].mappings
          /\ Len(procs'[i].mappings) = procs[i].num_students

\* C12, as stated: whenever the entrypoint Service cannot be fetched, reconcile
\* returns without raising and without a patch: the entrypoint port list stays
\* as it was, the enclosing deploy_class returns its assignment list and the
\* enclosing destroy_class returns normally.
C12_AnyFailedFetchSoftFails ==
    [][\A i \in Procs : FetchFails(i) => SoftFails(i)]_vars

\* C12, amended: when the fetch of the entrypoint Service exits non-zero,
\* reconcile returns without raising and without a patch, the port list stays
\* as it was, the enclosing deploy_class returns its assignment list and the
\* enclosing destroy_class returns normally; when the fetch does not answer in
\* time, the operation ends as a failure, also without a patch.
C12_ServiceFetchSoftFails ==
    [][\A i \in Procs :
          FetchFails(i) =>
              IF procs'[i].result = "exit"
              THEN SoftFails(i)
              ELSE /\ procs'[i].result = "timeout"
                   /\ EndsAs(i, "error")
                   /\ ~procs'[i].patched
                   /\ svcPorts' = svcPorts
                   /\ registry' = registry
      ]_vars

\* the managed ports of a port list
ManagedPorts(ports) ==
    {ports[k].port : k \in {x \in 1..Len(ports) : IsPortDerived(ports[x].name)}}

\* a deploy returned its assignments, which are in the registry, with no patch
\* applied: the entrypoint exposes none of the ports returned
C12_Witness ==
    \E i \in Procs :
        /\ FinishedOk(procs[i], "deploy") /\ ~procs[i].patched
        /\ procs[i].result = "exit"
        /\ Len(procs[i].mappings) > 0
        /\ \A k \in 1..Len(procs[i].mappings) :
              /\ Binds(registry, IntToStr(procs[i].mappings[k].external_port),
                       procs[i].mappings[k].internal_service)
              /\ procs[i].mappings[k].external_port \notin ManagedPorts(svcPorts)

\* request i ends in this step after its Helm step took effect and before its
\* registry commit or its patch of the entrypoint completed
PartialEnd(i) ==
    /\ \/ procs[i].pc \in {"calculate", "update_get", "update_apply", "clean_get",
                           "clean_apply", "sync_get_cm", "sync_get_svc", "sync_patch"}
       \/ procs[i].pc = "helm_deploy" /\ releases' # releases
    /\ procs'[i].pc = "done"
    /\ ~procs'[i].patched

\* what main.py answers on total success (200) and on total failure (500)
TotalOutcomes == {"ok", "error"}

\* C13: a deploy or destroy that ends with the workload materialized or removed
\* but the registry commit or the entrypoint sync not completed is reported
\* with an outcome that is neither that of total success nor that of total
\* failure.
C13_PartialFailureDistinct ==
    [][\A i \in Procs : PartialEnd(i) => procs'[i].outcome \notin TotalOutcomes]_vars

-----------------------------------------------------------------------------
(* Range exhaustion inside deploy_class (DeploySpec) *)

\* calculate_port_mappings, having read the registry, raises in this step of
\* deploy i
RangeExhausted(i) ==
    /\ procs[i].op = "deploy" /\ procs[i].pc = "calculate"
    /\ procs'[i].pc = "done"
    /\ procs'[i].result # "timeout"

Installed(p) == <<p.namespace, p.class_name>> \in releases

\* C14: when calculate_port_mappings raises for range exhaustion inside
\* deploy_class, the deploy ends as an error with the release of the earlier
\* step still installed, the registry not written and no reconcile run:
\* neither the Helm step nor the failed allocation changes the registry or the
\* entrypoint port list.
C14_ExhaustionAbortsWithoutRollback ==
    [][\A i \in Procs :
          /\ RangeExhausted(i) =>
                /\ EndsAs(i, "error")
                /\ ~procs'[i].patched
                /\ Installed(procs[i]) /\ releases' = releases
                /\ registry' = registry
                /\ svcPorts' = svcPorts
          /\ (procs[i].pc = "helm_deploy" /\ procs'[i] # procs[i]) =>
                registry' = registry /\ svcPorts' = svcPorts
      ]_vars

\* a deploy ended on range exhaustion: no call failed, its release is
\* installed, the registry holds other classes only
C14_Witness ==
    \E i \in Procs :
        /\ procs[i].op = "deploy" /\ procs[i].pc = "done" /\ procs[i].outcome = "error"
        /\ faults = 0
        /\ Installed(procs[i])
        /\ registry # EmptyData
        /\ \A k \in DOMAIN registry : registry[k] \notin Expected(procs[i])

-----------------------------------------------------------------------------
(* Successive deploys, one at a time from a fresh cluster (SeqSpec) *)

\* the first two requests were deploys of db kind t and both returned their lists
TwoDeploysDone(t) ==
    /\ started = 2
    /\ FinishedOk(procs[1], "deploy") /\ FinishedOk(procs[2], "deploy")
    /\ procs[1].db_type = t /\ procs[2].db_type = t

\* the list assigns students 1..n the n ports from `first` on, in order
Consecutive(mappings, first, n) ==
    /\ Len(mappings) = n
    /\ \A k \in 1..n : mappings[k].external_port = first + k - 1

\* C15: from an empty registry, two successive mysql deploys of sizes n1 and n2
\* with n1 + n2 <= 25 assign the first class the ports 3306..3306+n1-1 in
\* student order and the second class the next n2 ports.
C15_SuccessiveDeploysContiguous ==
    (/\ TwoDeploysDone(MYSQL)
     /\ procs[1].num_students + procs[2].num_students <= MaxStudents)
    => /\ Consecutive(procs[1].mappings, MysqlPortRangeStart, procs[1].num_students)
       /\ Consecutive(procs[2].mappings, MysqlPortRangeStart + procs[1].num_students,
                      procs[2].num_students)

\* the request begun last
LastProc == procs[((started + Cardinality(Procs) - 1) % Cardinality(Procs)) + 1]

\* C16: after every deploy_class or destroy_class that completes successfully
\* with no other request in flight and with the entrypoint Service fetched and
\* patched, the ports of the entrypoint's entries named "<port>-tcp" are
\* exactly the registry keys.
C16_EntrypointMirrorsRegistry ==
    (/\ started > 0
     /\ LastProc.op \in {"deploy", "destroy"}
     /\ LastProc.pc = "done" /\ LastProc.outcome = "ok"
     /\ LastProc.patched)
    => ManagedPorts(svcPorts) = OccupiedPorts(registry)

-----------------------------------------------------------------------------
(* First fit (AllocSpec) *)

\* q is the smallest port >= from that the snapshot leaves unoccupied
SmallestFree(q, from, occupied_ports) ==
    /\ q >= from
    /\ q \notin occupied_ports
    /\ \A r \in from..(q - 1) : r \in occupied_ports

\* C17: allocation is first-fit, hence a function of snapshot, range and n: the
\* first student's port is the smallest unoccupied port >= port_range_start and
\* each later student's port is the smallest unoccupied port strictly greater
\* than the previous student's port; the list is the one the snapshot determines.
C17_FirstFit ==
    \A i \in Procs :
        Allocated(procs[i]) =>
            LET p == procs[i]
                m == p.mappings
                occ == OccupiedPorts(p.calc_data)
            IN  /\ Len(m) = p.num_students
                /\ SmallestFree(m[1].external_port,
                                DB_CONFIG[p.db_type].port_range_start, occ)
                /\ \A k \in 1..(Len(m) - 1) :
                      SmallestFree(m[k + 1].external_port, m[k].external_port + 1, occ)
                /\ m = calculate_port_mappings(p.db_type, p.class_name, p.num_students,
                                               p.namespace, p.calc_data).mappings

\* a call filled a gap: one of its ports lies between two occupied ports, and a
\* later student went past the higher of them
C17_Witness ==
    \E i \in Procs :
        /\ Allocated(procs[i])
        /\ \E a, b \in ExternalPorts(procs[i]), lo, hi \in OccupiedPorts(procs[i].calc_data) :
              lo < a /\ a < hi /\ hi < b

-----------------------------------------------------------------------------
(* Repeated deploy (SeqSpec) *)

SameArguments(p, q) ==
    /\ p.db_type = q.db_type /\ p.class_name = q.class_name
    /\ p.num_students = q.num_students /\ p.namespace = q.namespace

KeysOf(data, target) == {k \in DOMAIN data : data[k] = target}

\* C18: a second successful deploy_class with the same four arguments and no
\* destroy in between returns n ports disjoint from those of the first and adds
\* n further entries: the registry then holds two keys for each target of the
\* class.
C18_SecondDeployAddsEntries ==
    (/\ TwoDeploysDone(procs[1].db_type)
     /\ SameArguments(procs[1], procs[2]))
    => /\ Len(procs[2].mappings) = procs[2].num_students
       /\ ExternalPorts(procs[1]) \cap ExternalPorts(procs[2]) = {}
       /\ \A target \in Expected(procs[1]) :
             Cardinality(KeysOf(registry, target)) = 2

-----------------------------------------------------------------------------
(* Registry round trip (SeqSpec): the write of update_tcp_configmap or        *)
(* clean_tcp_configmap is followed at once by the read of reconcile           *)

\* request p has written the registry and read it back, nobody else running
ReadBack(p) ==
    /\ p.pc = "sync_get_svc"
    /\ \/ p.op = "deploy"
       \/ p.op = "destroy" /\ Removed(p.current_data, p.cleaned_data) > 0

\* the mapping m that request p handed to _apply_tcp_configmap
Written(p) == IF p.op = "deploy" THEN p.current_data ELSE p.cleaned_data

\* C19: a successful _apply_tcp_configmap(m) followed at once by
\* _get_tcp_configmap(), with no other writer, returns exactly m, the empty
\* mapping included: no key of the previous contents is kept, none of m is lost.
C19_RegistryRoundTrip ==
    \A i \in Procs :
        ReadBack(procs[i]) =>
            procs[i].tcp_data = Written(procs[i])

-----------------------------------------------------------------------------
(* Failed commit of destroy_class (DestroySpec) *)

\* the entries of data whose target is one of p's class
ClassEntries(p, data) == {k \in DOMAIN data : data[k] \in Expected(p)}

\* C20: when destroy_class has removed the workload and the registry commit
\* that follows fails, the destroy ends as a failure with nothing undone or
\* done further: the release stays removed, the registry still holds the
\* class's entries, and reconcile is not run.
C20_FailedCommitOfDestroy ==
    [][\A i \in Procs :
          FailsAt(i, {"clean_apply"}) =>
              /\ EndsAs(i, "error")
              /\ ~procs'[i].patched
              /\ <<procs[i].namespace, procs[i].class_name>> \notin releases'
              /\ registry' = registry
              /\ ClassEntries(procs[i], registry') # {}
              /\ ClassEntries(procs[i], registry') = ClassEntries(procs[i], procs[i].current_data)
              /\ svcPorts' = svcPorts
      ]_vars

\* a destroy ended as a failure with its release removed, the class's entries
\* still in the registry and their ports still exposed
C20_Witness ==
    \E i \in Procs :
        /\ procs[i].op = "destroy" /\ procs[i].pc = "done" /\ procs[i].outcome = "error"
        /\ ~Installed(procs[i])
        /\ ClassEntries(procs[i], registry) # {}
        /\ \A k \in ClassEntries(procs[i], registry) : StrToInt(k) \in ManagedPorts(svcPorts)

-----------------------------------------------------------------------------
(* generate_instance_names (NamesSpec) *)

Named(p) == p.op = "names" /\ p.pc = "done"

\* name is class_name, then "-alumno", then the decimal numeral of index
IsStudentName(name, class_name, index) ==
    LET head == Len(class_name) + Len(AlumnoInfix)
        digits == SubSeq(name, head + 1, Len(name))
    IN  /\ Len(name) > head
        /\ SubSeq(name, 1, Len(class_name)) = class_name
        /\ SubSeq(name, Len(class_name) + 1, head) = AlumnoInfix
        /\ \A k \in 1..Len(digits) : IsDigit(digits[k])
        /\ digits[1] # "0"
        /\ StrToInt(digits) = index

\* C21: generate_instance_names returns exactly n names for n >= 1, the I-th of
\* which is "{class_name}-alumnoI", pairwise distinct, and the empty list for
\* n <= 0.
C21_InstanceNames ==
    \A i \in Procs :
        Named(procs[i]) =>
            LET p == procs[i] IN
            /\ Len(p.names) = IF p.num_students <= 0 THEN 0 ELSE p.num_students
            /\ \A I \in 1..Len(p.names) : IsStudentName(p.names[I], p.class_name, I)
            /\ \A I, J \in 1..Len(p.names) : I # J => p.names[I] # p.names[J]

\* one call returned the names of a full class, another call with a size
\* below 1 returned the empty list
C21_Witness ==
    \E i, j \in Procs :
        /\ Named(procs[i]) /\ Len(procs[i].names) = MaxStudents
        /\ Named(procs[j]) /\ procs[j].num_students < 0 /\ procs[j].names = <<>>

-----------------------------------------------------------------------------
(* Order of the steps of deploy_class (DeploySpec) *)

\* deploy i moves on to the step `to` in this step
Enters(i, to) == procs[i].pc # to /\ procs'[i].pc = to

\* deploy i ends in this step before its registry commit has succeeded
EndsBeforeCommit(i) ==
    /\ procs[i].pc \in {"helm_deploy", "calculate", "update_get", "update_apply"}
    /\ procs'[i].pc = "done"

\* C22: within one deploy_class the registry is read for allocation only after
\* the install returned success, the registry is committed only after the
\* allocation returned its n mappings, and reconcile starts only after the
\* commit succeeded; a deploy that fails before its commit leaves no registry
\* entry of its class and no managed entrypoint port beyond the registry's.
C22_DeployStepsOrdered ==
    [][\A i \in Procs :
          /\ Enters(i, "calculate") =>
                /\ procs[i].pc = "helm_deploy" /\ faults' = faults
                /\ <<procs[i].namespace, procs[i].class_name>> \in releases'
          /\ Enters(i, "update_get") =>
                /\ procs[i].pc = "calculate"
                /\ Len(procs'[i].mappings) = procs[i].num_students
          /\ Enters(i, "update_apply") => procs[i].pc = "update_get"
          /\ Enters(i, "sync_get_cm") =>
                /\ procs[i].pc = "update_apply" /\ faults' = faults
                /\ \A k \in 1..Len(procs[i].mappings) :
                      Binds(registry', IntToStr(procs[i].mappings[k].external_port),
                            procs[i].mappings[k].internal_service)
          /\ procs[i].pc \in {"helm_deploy", "calculate", "update_get"} =>
                registry' = registry
          /\ EndsBeforeCommit(i) =>
                /\ EndsAs(i, "error")
                /\ ClassEntries(procs[i], registry') = {}
                /\ ManagedPorts(svcPorts') \subseteq OccupiedPorts(registry')
      ]_vars

\* a deploy ended as an error on its failed commit: its release is installed,
\* the registry holds other classes only
C22_Witness ==
    \E i \in Procs :
        /\ procs[i].op = "deploy" /\ procs[i].pc = "done" /\ procs[i].outcome = "error"
        /\ faults = 1
        /\ Installed(procs[i])
        /\ registry # EmptyData
        /\ ClassEntries(procs[i], registry) = {}
        /\ ManagedPorts(svcPorts) = OccupiedPorts(registry)

-----------------------------------------------------------------------------
(* Reconcile under overlapping requests (Spec) *)

\* every request slot has served its request, which succeeded and patched
AllFinishedOk ==
    /\ started = Cardinality(Procs)
    /\ \A i \in Procs :
          procs[i].pc = "done" /\ procs[i].outcome = "ok" /\ procs[i].patched

\* C23: when deploy/destroy invocations overlap and every external call
\* succeeds, once all of them have finished the ports of the entrypoint's
\* managed entries are exactly the registry keys (no reconcile applies a list
\* built from a registry read that another invocation's commit has outdated
\* after that invocation's own reconcile).
C23_EntrypointConvergesAfterOverlap ==
    (AllFinishedOk /\ faults = 0) => ManagedPorts(svcPorts) = OccupiedPorts(registry)

-----------------------------------------------------------------------------
(* Failed uninstall of destroy_class (DestroySpec) *)

\* the ports an allocation of p's class over the registry `data` would return
WouldAllocate(p, data) ==
    LET res == calculate_port_mappings(p.db_type, p.class_name, p.num_students,
                                       p.namespace, data)
    IN  {res.mappings[k].external_port : k \in 1..Len(res.mappings)}

\* C24: when helm uninstall fails inside destroy_class, the destroy ends as a
\* failure before touching the registry: the registry, with the entries of the
\* class, and the entrypoint port list are exactly as they were, and an
\* allocation over that registry gives out none of the ports of those entries.
C24_FailedUninstallTouchesNothing ==
    [][\A i \in Procs :
          FailsAt(i, {"helm_uninstall"}) =>
              /\ EndsAs(i, "error")
              /\ ~procs'[i].patched
              /\ registry' = registry
              /\ svcPorts' = svcPorts
              /\ releases' = releases
              /\ \A k \in ClassEntries(procs[i], registry') :
                    StrToInt(k) \notin WouldAllocate(procs[i], registry')
      ]_vars

\* a destroy ended on its failed uninstall: the release is still installed,
\* the class's entries are in the registry and their ports exposed
C24_Witness ==
    \E i \in Procs :
        /\ procs[i].op = "destroy" /\ procs[i].pc = "done" /\ procs[i].outcome = "error"
        /\ Installed(procs[i])
        /\ Cardinality(ClassEntries(procs[i], registry)) = procs[i].num_students
        /\ \A k \in ClassEntries(procs[i], registry) : StrToInt(k) \in ManagedPorts(svcPorts)

-----------------------------------------------------------------------------
(* The write of clean_tcp_configmap (DestroySpec) *)

\* clean_tcp_configmap of destroy i fetches the registry in this step
Fetches(i) ==
    /\ procs[i].op = "destroy" /\ procs[i].pc = "clean_get"
    /\ procs'[i] # procs[i]
    /\ procs'[i].result # "timeout"

\* C25: clean_tcp_configmap writes the registry only when it removes an entry:
\* when the registry it fetched is empty or holds no expected target, no commit
\* is issued and destroy_class goes straight on to reconcile; the commit is
\* issued when there is an entry to remove, and no other step of destroy_class
\* changes the registry.
C25_CleanWritesOnlyWhenRemoving ==
    [][\A i \in Procs :
          /\ Fetches(i) =>
                /\ registry' = registry
                /\ IF ClassEntries(procs[i], procs'[i].current_data) = {}
                   THEN procs'[i].pc = "sync_get_cm"
                   ELSE /\ procs'[i].pc = "clean_apply"
                        /\ procs'[i].current_data # EmptyData
          /\ Enters(i, "clean_apply") => Fetches(i)
          /\ (procs[i].op = "destroy" /\ procs'[i] # procs[i] /\ registry' # registry) =>
                /\ procs[i].pc = "clean_apply"
                /\ ClassEntries(procs[i], procs[i].current_data) # {}
      ]_vars

\* a destroy fetched a registry that holds other classes only and went on to
\* reconcile without a commit
C25_Witness ==
    \E i \in Procs :
        /\ procs[i].op = "destroy" /\ procs[i].pc = "sync_get_cm"
        /\ faults = 0
        /\ procs[i].current_data = registry
        /\ registry # EmptyData
        /\ ClassEntries(procs[i], registry) = {}

====
